---- MODULE Spec2Model ----
(***************************************************************************)
(* Model of src/kinematics.py (FitELP): the emission-line loop of the      *)
(* script, FittingProfile._gaussian_component / lin_and_multi_gaussian,    *)
(* vel_dispersion and EmissionLineProfile._velocity.                       *)
(*                                                                         *)
(* Units.  Velocities (centers, sigmas, their errors) are integers in      *)
(* tenths of km/s, squared velocities (sigmaT2, sigma^2) are integers in   *)
(* hundredths of (km/s)^2, amplitudes are integers in tenths.  Catalog     *)
(* numbers are the source's numbers rounded to that resolution.            *)
(* Wavelengths are integers in hundredths of an Angstrom; the velocities   *)
(* _velocity returns are exact rationals in km/s.                          *)
(***************************************************************************)
EXTENDS Integers, Sequences, FiniteSets, TLC

(***************************************************************************)
(* Bounds of the model (not program constants).                            *)
(***************************************************************************)
\* catalog orders: the declared order, and the declared order with the line
\* at one of the first MaxSwapPos positions exchanged with a later line
MaxSwapPos == 2
\* vel_dispersion is applied to sigmaObs = 0..MaxSigmaObs km/s
MaxSigmaObs == 14
\* ... and to sigmaObsError = 0..MaxSigmaErr tenths of km/s (or None)
MaxSigmaErr == 2
\* interleavings of the two zones: every 'high' line comes after at most
\* MaxLowBefore 'low' lines, or after all of them
MaxLowBefore == 1
\* _velocity is applied to wave arrays of 1..MaxWaveLen samples
MaxWaveLen == 2
\* ... each within MaxWaveOffset hundredths of an Angstrom of restWave
MaxWaveOffset == 2

(***************************************************************************)
(* Program constants.                                                      *)
(***************************************************************************)
numComps == 3
\* the speed of light in km/s
SpOfLi == 300000

\* instrumental sigma per filter, tenths of km/s (4.9 and 5.6)
sigmaInstrBlue == 49
sigmaInstrRed == 56

centerListLowZone == <<63492, 63290, 63155>>
sigmaListLowZone == <<193, 642, 223>>
centerListHighZone == <<63485, 63330, 63146>>
sigmaListHighZone == <<160, 564, 166>>

\* variant: NII-6548A declared before NII-6584A
emNames_DoubletReversed ==
  << "H-Alpha", "OIII-5007A", "H-Beta", "H-Gamma", "H-Delta",
     "NII-6548A", "NII-6584A", "SII-6717A", "SII-6731A",
     "OII-3729A", "OII-3726A", "OI-6300A", "SIII-9069A", "ArIII-7136A",
     "HeIH8-3889A", "HeI-4471A", "HeI-5876A", "HeI-6678A", "HeI-7065A",
     "OIII-4959A", "NeIII-3868A", "NeIII-3970A", "NeIII-3967A" >>

\* the keys of emProfiles in their declared (insertion) order
emNames ==
  << "H-Alpha", "OIII-5007A", "H-Beta", "H-Gamma", "H-Delta",
     "NII-6584A", "NII-6548A", "SII-6717A", "SII-6731A",
     "OII-3729A", "OII-3726A", "OI-6300A", "SIII-9069A", "ArIII-7136A",
     "HeIH8-3889A", "HeI-4471A", "HeI-5876A", "HeI-6678A", "HeI-7065A",
     "OIII-4959A", "NeIII-3868A", "NeIII-3970A", "NeIII-3967A" >>

NLines == Len(emNames)

\* 'restWavelength' of each catalog entry, in the declared order
restWavelengths ==
  << 656282, 500684, 486133, 434047, 410174,
     658341, 654803, 671647, 673085,
     372882, 372603, 630030, 906890, 713578,
     388865, 447148, 587564, 667815, 706519,
     495891, 386875, 397007, 396746 >>

LineNames == { emNames[i] : i \in 1..NLines }

\* the configuration fields of one emProfiles entry the loop reads
Info(z, f, t2, amp) == [zone |-> z, Filter |-> f, sigmaT2 |-> t2, ampList |-> amp]

emInfoTable ==
  [n \in LineNames |->
    CASE n = "H-Alpha"     -> Info("low",  "red",  16496, <<171, 153, 260>>)
      [] n = "OIII-5007A"  -> Info("high", "red",  4154,  <<222, 265, 272>>)
      [] n = "H-Beta"      -> Info("low",  "blue", 16496, <<71, 69, 91>>)
      [] n = "H-Gamma"     -> Info("low",  "blue", 16496, <<36, 44, 50>>)
      [] n = "H-Delta"     -> Info("low",  "blue", 16496, <<20, 25, 29>>)
      [] n = "NII-6584A"   -> Info("low",  "red",  1187,  <<20, 23, 15>>)
      [] n = "NII-6548A"   -> Info("low",  "red",  1187,  <<6, 7, 5>>)
      [] n = "SII-6717A"   -> Info("low",  "red",  519,   <<16, 22, 13>>)
      [] n = "SII-6731A"   -> Info("low",  "red",  519,   <<10, 19, 4>>)
      [] n = "OII-3729A"   -> Info("low",  "blue", 1039,  <<167, -25, 191>>)
      [] n = "OII-3726A"   -> Info("low",  "blue", 1039,  <<114, -15, 120>>)
      [] n = "OI-6300A"    -> Info("low",  "red",  1039,  <<5, 1, 4>>)
      [] n = "SIII-9069A"  -> Info("low",  "red",  519,   <<9, 8, 14>>)
      [] n = "ArIII-7136A" -> Info("low",  "red",  416,   <<5, -2, 11>>)
      [] n = "HeIH8-3889A" -> Info("low",  "blue", 4154,  <<21, 45, 0>>)
      [] n = "HeI-4471A"   -> Info("low",  "blue", 4154,  <<3, 0, 5>>)
      [] n = "HeI-5876A"   -> Info("low",  "red",  4154,  <<7, 8, 10>>)
      [] n = "HeI-6678A"   -> Info("low",  "red",  4154,  <<3, 0, 3>>)
      [] n = "HeI-7065A"   -> Info("low",  "red",  4154,  <<1, 1, 1>>)
      [] n = "OIII-4959A"  -> Info("high", "red",  1039,  <<68, 125, 82>>)
      [] n = "NeIII-3868A" -> Info("high", "blue", 824,   <<18, 22, 24>>)
      [] n = "NeIII-3970A" -> Info("high", "blue", 824,   <<12, 17, 12>>)
      [] n = "NeIII-3967A" -> Info("high", "blue", 824,   <<2, 22, 5>>)]

emInfo(n) == emInfoTable[n]

\* Python's None (an optional number is <<>> or <<v>>), and the marker of a
\* dictionary key that was never set (list references are 1, 2, ...)
None == <<>>
Some(v) == <<v>>
NoKey == 0

(***************************************************************************)
(* FittingProfile._gaussian_component: one Gaussian's parameters, each     *)
(* with its start value and its vary flag.                                 *)
(***************************************************************************)
Flags(vc, vs, va) == [varyCentre |-> vc, varySigma |-> vs, varyAmp |-> va]

\* variant: the fixed-sigma branch of zone 'high' lets sigma vary
VaryFlags_HighSigmaFree(zone, lineName) ==
  IF zone = "low"
  THEN IF lineName = "H-Alpha"
       THEN Flags(TRUE, TRUE, TRUE)
       ELSE IF lineName \in {"NII-6584A", "SII-6717A", "OII-3729A"}
            THEN Flags(FALSE, TRUE, TRUE)
            ELSE Flags(FALSE, FALSE, TRUE)
  ELSE IF lineName = "OIII-5007A"
       THEN Flags(TRUE, TRUE, TRUE)
       ELSE Flags(FALSE, TRUE, TRUE)

\* the nested conditionals of _gaussian_component
VaryFlags(zone, lineName) ==
  IF zone = "low"
  THEN IF lineName = "H-Alpha"
       THEN Flags(TRUE, TRUE, TRUE)
       ELSE IF lineName \in {"NII-6584A", "SII-6717A", "OII-3729A"}
            THEN Flags(FALSE, TRUE, TRUE)
            ELSE Flags(FALSE, FALSE, TRUE)
  ELSE IF zone = "high"
       THEN IF lineName = "OIII-5007A"
            THEN Flags(TRUE, TRUE, TRUE)
            ELSE Flags(FALSE, FALSE, TRUE)
       ELSE "UnboundLocalError"

\* variant: the center is set with vary=True whatever the flag
gaussian_component_CentreFree(zone, lineName, c, s, a) ==
  LET f == VaryFlags(zone, lineName)
  IN  [center    |-> [value |-> c, vary |-> TRUE],
       sigma     |-> [value |-> s, vary |-> f.varySigma],
       amplitude |-> [value |-> a, vary |-> f.varyAmp]]

gaussian_component(zone, lineName, c, s, a) ==
  LET f == VaryFlags(zone, lineName)
  IN  [center    |-> [value |-> c, vary |-> f.varyCentre],
       sigma     |-> [value |-> s, vary |-> f.varySigma],
       amplitude |-> [value |-> a, vary |-> f.varyAmp]]

(***************************************************************************)
(* FittingProfile.lin_and_multi_gaussian: the parameter set (one           *)
(* _gaussian_component per index), then the lmfit optimisation.            *)
(***************************************************************************)
\* the loop that builds the numOfComponents Gaussians
BuildParams(zone, lineName, numOfComponents, cList, sList, aList) ==
  [i \in 1..numOfComponents |->
     gaussian_component(zone, lineName, cList[i], sList[i], aList[i])]

\* what the optimiser may return.  shift: it leaves the free parameters at
\* their start values (0) or moves them (1, by one tenth).  stderr: None when
\* lmfit could not estimate the uncertainties, else a number (one tenth
\* stands for every number, the 0 that older lmfit releases report instead
\* of None included)
FitShifts == {0, 1}
FitOutcomes == [shift : FitShifts, stderr : {None, Some(1)}]

\* one parameter after mod.fit: lmfit holds a parameter with vary=False at
\* its start value
BestValue(p, shift) == IF p.vary THEN p.value + shift ELSE p.value

\* mod.fit: best_values of every component, the reported stderr, and the
\* parameters the fit was started from
ModFit(pars, o) ==
  [best   |-> [i \in 1..Len(pars) |->
                 [center    |-> BestValue(pars[i].center, o.shift),
                  sigma     |-> BestValue(pars[i].sigma, o.shift),
                  amplitude |-> BestValue(pars[i].amplitude, o.shift)]],
   stderr |-> o.stderr,
   pars   |-> pars]

lin_and_multi_gaussian(zone, lineName, numOfComponents, cList, sList, aList, o) ==
  ModFit(BuildParams(zone, lineName, numOfComponents, cList, sList, aList), o)

\* model.best_values['g%d_center'] / ['g%d_sigma'] for idx in range(numComps)
BestCenters(m) == [i \in 1..numComps |-> m.best[i].center]
\* variant: the index starts at 1, range(1, numComps), so g1 is left out
BestSigmas_FromOne(m) == [i \in 1..(numComps - 1) |-> m.best[i + 1].sigma]

BestSigmas(m) == [i \in 1..numComps |-> m.best[i].sigma]

(***************************************************************************)
(* vel_dispersion.  The float arithmetic is exact arithmetic here: a       *)
(* rational is a pair <<numerator, denominator>>, and the square root is   *)
(* kept symbolic (its radicand).                                           *)
(***************************************************************************)
NaN == [nan |-> TRUE]

Abs(x) == IF x < 0 THEN -x ELSE x

RECURSIVE Gcd(_, _)
Gcd(a, b) == IF b = 0 THEN a ELSE Gcd(b, a % b)

\* a rational in lowest terms (the denominator is not 0)
RNorm(n, d) ==
  LET g == Gcd(Abs(n), Abs(d))
  IN  <<n \div g, d \div g>>

RMul(a, b) == RNorm(a[1] * b[1], a[2] * b[2])
RDiv(a, b) == RNorm(a[1] * b[2], a[2] * b[1])
REq(a, b) == a[1] * b[2] = b[1] * a[2]

\* variant: a final else binds sigmaInstr for every other filter
SigmaInstrBound_Else(filter) == TRUE

\* the if/elif that binds sigmaInstr; no branch binds it for another filter
SigmaInstrBound(filter) == filter = "blue" \/ filter = "red"
\* variant: the two instrumental sigmas exchanged
SigmaInstrOf_Exchanged(filter) == IF filter = "blue" THEN sigmaInstrRed ELSE sigmaInstrBlue

SigmaInstrOf(filter) == IF filter = "blue" THEN sigmaInstrBlue ELSE sigmaInstrRed

\* np.sqrt of a number in hundredths: NaN for a negative radicand
NpSqrt(radicand) == IF radicand < 0 THEN NaN ELSE [sqrtOf |-> radicand]

Raised(e) == [raised |-> e]
Returned(i, ie) == [raised |-> "none", intrinsic |-> i, intrinsicError |-> ie]

\* numpyFloat: the operands are numpy float64 (division by zero gives
\* inf/nan) rather than Python floats (division by zero raises)
vel_dispersion(sigmaObs, sigmaObsError, sigmaTemp2, filter, numpyFloat) ==
  IF ~SigmaInstrBound(filter) THEN Raised("UnboundLocalError")
  ELSE
    LET sigmaInstr == SigmaInstrOf(filter)
        intrinsic == NpSqrt(sigmaObs * sigmaObs - sigmaInstr * sigmaInstr - sigmaTemp2)
    IN  IF sigmaObsError = None THEN Raised("TypeError")
        ELSE IF sigmaObs = 0
        THEN IF numpyFloat THEN Returned(intrinsic, NaN)
                           ELSE Raised("ZeroDivisionError")
        ELSE
          LET s == <<sigmaObs, 1>>
              squareError == RMul(RDiv(RMul(<<2, 1>>, <<sigmaObsError[1], 1>>), s), RMul(s, s))
              coef == RDiv(RMul(<<1, 2>>, squareError), RMul(s, s))
          IN  Returned(intrinsic,
                       IF intrinsic = NaN THEN NaN
                       ELSE [coef |-> coef, times |-> intrinsic])

(***************************************************************************)
(* EmissionLineProfile._velocity, applied by numpy to each sample of the   *)
(* wave array.                                                             *)
(***************************************************************************)
\* variant: the difference is taken as restWave - wave
velocity_Blueshift(restWave, wave) ==
  [i \in 1..Len(wave) |->
     RMul(RDiv(<<restWave - wave[i], 1>>, <<restWave, 1>>), <<SpOfLi, 1>>)]

velocity(restWave, wave) ==
  [i \in 1..Len(wave) |->
     RMul(RDiv(<<wave[i] - restWave, 1>>, <<restWave, 1>>), <<SpOfLi, 1>>)]

(***************************************************************************)
(* State.                                                                  *)
(***************************************************************************)
VARIABLES
  catalog,             \* the iteration order of emProfiles.items()
  pos,                 \* index in catalog of the line the loop is at
  pc,                  \* "loop", then "done" once the script has finished
  err,                 \* "none", or the exception that ended the script
  emProfiles,          \* per line: the centerList / sigmaList keys (references)
  heap,                \* the list objects those keys refer to
  model,               \* the ModelResult of the latest fit
  fitCount,            \* per line: number of lin_and_multi_gaussian calls
  fitCalls,            \* per line: the arguments and best values of its fit
  lowZoneProfiles,     \* names appended at line 336
  highZoneProfiles,    \* names appended at line 350
  ampListAll,          \* names appended at line 359
  allModelComponents,  \* rows appended at line 358
  gcIn, gcPars,        \* lin_and_multi_gaussian's component loop on its own
  vdIn, vdOut,         \* vel_dispersion on its own
  velIn, velOut        \* EmissionLineProfile._velocity on its own

runVars == <<catalog, pos, pc, err, emProfiles, heap, model, fitCount, fitCalls,
             lowZoneProfiles, highZoneProfiles, ampListAll, allModelComponents>>
gcVars == <<gcIn, gcPars>>
vdVars == <<vdIn, vdOut>>
velVars == <<velIn, velOut>>
vars == <<runVars, gcVars, vdVars, velVars>>

NoModel == [best |-> <<>>, stderr |-> None, pars |-> <<>>]
NoCall == [cList |-> <<>>, sList |-> <<>>, aList |-> <<>>, center |-> <<>>, sigma |-> <<>>]

\* the declared order with the lines at positions i and j exchanged
Swap(seq, i, j) ==
  [k \in 1..Len(seq) |-> IF k = i THEN seq[j] ELSE IF k = j THEN seq[i] ELSE seq[k]]

CatalogOrders ==
  {emNames} \cup { Swap(emNames, i, j) : i \in 1..MaxSwapPos, j \in 1..NLines }

RunIdle ==
  /\ catalog = <<>> /\ pos = 0 /\ pc = "idle" /\ err = "none"
  /\ emProfiles = <<>> /\ heap = <<>> /\ model = NoModel
  /\ fitCount = <<>> /\ fitCalls = <<>>
  /\ lowZoneProfiles = <<>> /\ highZoneProfiles = <<>>
  /\ ampListAll = <<>> /\ allModelComponents = <<>>
GcIdle == gcIn = <<>> /\ gcPars = <<>>
VdIdle == vdIn = <<>> /\ vdOut = <<>>
VelIdle == velIn = <<>> /\ velOut = <<>>

\* the script up to the emission-line loop (lines 254-300)
Init ==
  /\ catalog \in CatalogOrders
  /\ pos = 1 /\ pc = "loop" /\ err = "none"
  /\ emProfiles = [n \in LineNames |-> [centerList |-> NoKey, sigmaList |-> NoKey]]
  /\ heap = <<>>
  /\ model = NoModel
  /\ fitCount = [n \in LineNames |-> 0]
  /\ fitCalls = [n \in LineNames |-> NoCall]
  /\ lowZoneProfiles = <<>> /\ highZoneProfiles = <<>>
  /\ ampListAll = <<>> /\ allModelComponents = <<>>
  /\ GcIdle /\ VdIdle /\ VelIdle

(***************************************************************************)
(* One iteration of the emission-line loop (lines 303-359).                *)
(***************************************************************************)
Running == pc = "loop" /\ err = "none" /\ pos \in 1..NLines
emName == catalog[pos]

\* variant: every fixed-sigma 'low' line takes H-Alpha's sigmaList
SigmaSource_ZoneOnly(name) == "H-Alpha"

\* the line whose 'sigmaList' a fixed-sigma 'low' line takes (lines 327-334)
SigmaSource(name) ==
  IF name = "NII-6548A" THEN "NII-6584A"
  ELSE IF name = "SII-6731A" THEN "SII-6717A"
  ELSE IF name = "OII-3726A" THEN "OII-3729A"
  ELSE "H-Alpha"

\* variant: the loop passes over the item after the one it has handled
NextLine_SkipOne(p) == p + 2

\* the for statement moving on to the next item of emProfiles.items()
NextLine(p) == p + 1

\* first index whose vel_dispersion call raises, 0 if none does
FirstRaise(vd) ==
  IF \E i \in 1..numComps : vd[i].raised # "none"
  THEN CHOOSE i \in 1..numComps :
         /\ vd[i].raised # "none"
         /\ \A k \in 1..(i - 1) : vd[k].raised = "none"
  ELSE 0

\* a dictionary read of a key that was never set: the script ends with the
\* KeyError, keeping what it had written (prof)
RaiseKeyError(prof) ==
  /\ err' = "KeyError"
  /\ emProfiles' = prof
  /\ UNCHANGED <<catalog, pos, pc, heap, model, fitCount, fitCalls,
                 lowZoneProfiles, highZoneProfiles, ampListAll,
                 allModelComponents, gcVars, vdVars, velVars>>

\* the rest of the iteration once the fit m has returned: the zone's profile
\* list (lines 336 / 350) and the component report (lines 353-359)
Complete(prof, hp, m, cList, sList) ==
  \E numpyFloat \in (IF \E i \in 1..numComps : m.best[i].sigma = 0
                      THEN BOOLEAN ELSE {TRUE}) :
    LET info == emInfo(emName)
        vd == [idx \in 1..numComps |->
                 vel_dispersion(m.best[idx].sigma, m.stderr, info.sigmaT2,
                                info.Filter, numpyFloat)]
        stop == FirstRaise(vd)
        rows == [idx \in 1..(IF stop = 0 THEN numComps ELSE stop - 1) |->
                   [emName |-> emName, g |-> idx,
                    center |-> m.best[idx].center,
                    sigInt |-> vd[idx].intrinsic]]
    IN  /\ emProfiles' = prof
        /\ heap' = hp
        /\ model' = m
        /\ fitCount' = [fitCount EXCEPT ![emName] = @ + 1]
        /\ fitCalls' = [fitCalls EXCEPT ![emName] =
                          [cList |-> cList, sList |-> sList,
                           aList |-> info.ampList,
                           center |-> BestCenters(m), sigma |-> BestSigmas(m)]]
        /\ IF info.zone = "low"
           THEN /\ lowZoneProfiles' = Append(lowZoneProfiles, emName)
                /\ UNCHANGED highZoneProfiles
           ELSE /\ highZoneProfiles' = Append(highZoneProfiles, emName)
                /\ UNCHANGED lowZoneProfiles
        /\ allModelComponents' = allModelComponents \o rows
        /\ IF stop = 0
           THEN /\ ampListAll' = Append(ampListAll, emName)
                /\ pos' = NextLine(pos)
                /\ err' = "none"
           ELSE /\ err' = vd[stop].raised
                /\ UNCHANGED <<ampListAll, pos>>
        /\ UNCHANGED <<catalog, pc, gcVars, vdVars, velVars>>

\* emProfiles[emName][key] = ref
SetKey(prof, name, key, ref) == [prof EXCEPT ![name][key] = ref]

\* lines 311-317: the 'low' reference, fit from the zone's seed lists; its
\* centerList and sigmaList are two new lists filled from the best values
FitHAlpha ==
  /\ Running
  /\ emInfo(emName).zone = "low"
  /\ emName = "H-Alpha"
  /\ \E o \in FitOutcomes :
       LET m == lin_and_multi_gaussian("low", emName, numComps, centerListLowZone,
                                       sigmaListLowZone, emInfo(emName).ampList, o)
           hp1 == Append(heap, BestCenters(m))
           hp2 == Append(hp1, BestSigmas(m))
           prof == SetKey(SetKey(emProfiles, emName, "centerList", Len(hp1)),
                          emName, "sigmaList", Len(hp2))
       IN  Complete(prof, hp2, m, centerListLowZone, sigmaListLowZone)

\* lines 319-324: centerList is H-Alpha's list object, the fit starts from
\* H-Alpha's lists, sigmaList is a new list filled from the best sigmas
\* variant: sigmaList stays H-Alpha's list object, the fit's sigmas unrecorded
RecordSigmaFree_KeepReference(prof, hp, name, m) ==
  [prof |-> SetKey(prof, name, "sigmaList", prof["H-Alpha"].sigmaList),
   heap |-> hp]

\* variant: sigmaList is H-Alpha's list object, overwritten with the fit's sigmas
RecordSigmaFree_InPlace(prof, hp, name, m) ==
  [prof |-> SetKey(prof, name, "sigmaList", prof["H-Alpha"].sigmaList),
   heap |-> [hp EXCEPT ![prof["H-Alpha"].sigmaList] = BestSigmas(m)]]

RecordSigmaFree(prof, hp, name, m) ==
  [prof |-> SetKey(prof, name, "sigmaList", Len(hp) + 1),
   heap |-> Append(hp, BestSigmas(m))]

FitSigmaFree ==
  /\ Running
  /\ emInfo(emName).zone = "low"
  /\ emName \in {"NII-6584A", "SII-6717A", "OII-3729A"}
  /\ IF emProfiles["H-Alpha"].centerList = NoKey
     THEN RaiseKeyError(emProfiles)
     ELSE
       LET prof1 == SetKey(emProfiles, emName, "centerList",
                           emProfiles["H-Alpha"].centerList)
       IN  IF prof1["H-Alpha"].sigmaList = NoKey
           THEN RaiseKeyError(prof1)
           ELSE
             \E o \in FitOutcomes :
               LET cList == heap[prof1["H-Alpha"].centerList]
                   sList == heap[prof1["H-Alpha"].sigmaList]
                   m == lin_and_multi_gaussian("low", emName, numComps, cList, sList,
                                               emInfo(emName).ampList, o)
                   rec == RecordSigmaFree(prof1, heap, emName, m)
               IN  Complete(rec.prof, rec.heap, m, cList, sList)

\* lines 325-335: centerList is H-Alpha's list object, sigmaList is the list
\* object of SigmaSource(emName); the fit starts from the line's own two keys
FitLowDependent ==
  /\ Running
  /\ emInfo(emName).zone = "low"
  /\ emName # "H-Alpha"
  /\ emName \notin {"NII-6584A", "SII-6717A", "OII-3729A"}
  /\ IF emProfiles["H-Alpha"].centerList = NoKey
     THEN RaiseKeyError(emProfiles)
     ELSE
       LET prof1 == SetKey(emProfiles, emName, "centerList",
                           emProfiles["H-Alpha"].centerList)
       IN  IF prof1[SigmaSource(emName)].sigmaList = NoKey
           THEN RaiseKeyError(prof1)
           ELSE
             LET prof2 == SetKey(prof1, emName, "sigmaList",
                                 prof1[SigmaSource(emName)].sigmaList)
                 cList == heap[prof2[emName].centerList]
                 sList == heap[prof2[emName].sigmaList]
             IN  \E o \in FitOutcomes :
                   Complete(prof2, heap,
                            lin_and_multi_gaussian("low", emName, numComps, cList, sList,
                                                   emInfo(emName).ampList, o),
                            cList, sList)

\* lines 339-345: the 'high' reference
FitOIII ==
  /\ Running
  /\ emInfo(emName).zone = "high"
  /\ emName = "OIII-5007A"
  /\ \E o \in FitOutcomes :
       LET m == lin_and_multi_gaussian("high", emName, numComps, centerListHighZone,
                                       sigmaListHighZone, emInfo(emName).ampList, o)
           hp1 == Append(heap, BestCenters(m))
           hp2 == Append(hp1, BestSigmas(m))
           prof == SetKey(SetKey(emProfiles, emName, "centerList", Len(hp1)),
                          emName, "sigmaList", Len(hp2))
       IN  Complete(prof, hp2, m, centerListHighZone, sigmaListHighZone)

\* variant: a 'high' line takes the keys of the 'low' reference, H-Alpha
FitHighDependent_FromHAlpha ==
  /\ Running
  /\ emInfo(emName).zone = "high"
  /\ emName # "OIII-5007A"
  /\ IF emProfiles["H-Alpha"].centerList = NoKey
     THEN RaiseKeyError(emProfiles)
     ELSE
       LET prof1 == SetKey(emProfiles, emName, "centerList",
                           emProfiles["H-Alpha"].centerList)
       IN  IF prof1["H-Alpha"].sigmaList = NoKey
           THEN RaiseKeyError(prof1)
           ELSE
             LET prof2 == SetKey(prof1, emName, "sigmaList",
                                 prof1["H-Alpha"].sigmaList)
                 cList == heap[prof2[emName].centerList]
                 sList == heap[prof2[emName].sigmaList]
             IN  \E o \in FitOutcomes :
                   Complete(prof2, heap,
                            lin_and_multi_gaussian("high", emName, numComps, cList, sList,
                                                   emInfo(emName).ampList, o),
                            cList, sList)

\* lines 346-349: both keys are OIII-5007A's list objects
FitHighDependent ==
  /\ Running
  /\ emInfo(emName).zone = "high"
  /\ emName # "OIII-5007A"
  /\ IF emProfiles["OIII-5007A"].centerList = NoKey
     THEN RaiseKeyError(emProfiles)
     ELSE
       LET prof1 == SetKey(emProfiles, emName, "centerList",
                           emProfiles["OIII-5007A"].centerList)
       IN  IF prof1["OIII-5007A"].sigmaList = NoKey
           THEN RaiseKeyError(prof1)
           ELSE
             LET prof2 == SetKey(prof1, emName, "sigmaList",
                                 prof1["OIII-5007A"].sigmaList)
                 cList == heap[prof2[emName].centerList]
                 sList == heap[prof2[emName].sigmaList]
             IN  \E o \in FitOutcomes :
                   Complete(prof2, heap,
                            lin_and_multi_gaussian("high", emName, numComps, cList, sList,
                                                   emInfo(emName).ampList, o),
                            cList, sList)

\* the loop is exhausted: the listings and the combined plots (lines 361-402)
Finish ==
  /\ pc = "loop" /\ err = "none" /\ pos = NLines + 1
  /\ pc' = "done"
  /\ UNCHANGED <<catalog, pos, err, emProfiles, heap, model, fitCount, fitCalls,
                 lowZoneProfiles, highZoneProfiles, ampListAll,
                 allModelComponents, gcVars, vdVars, velVars>>

Next ==
  \/ FitHAlpha
  \/ FitSigmaFree
  \/ FitLowDependent
  \/ FitOIII
  \/ FitHighDependent
  \/ Finish

Spec == Init /\ [][Next]_vars

(***************************************************************************)
(* The script over the interleavings of its two zones: the 'low' lines in  *)
(* their declared order, the 'high' lines in theirs, merged.               *)
(***************************************************************************)
lowSeq == SelectSeq(emNames, LAMBDA n : emInfo(n).zone = "low")
highSeq == SelectSeq(emNames, LAMBDA n : emInfo(n).zone = "high")

\* the merge in which the j-th 'high' line comes after before[j] 'low' lines
Interleave(before) ==
  [k \in 1..NLines |->
     IF \E j \in 1..Len(highSeq) : before[j] + j = k
     THEN highSeq[CHOOSE j \in 1..Len(highSeq) : before[j] + j = k]
     ELSE lowSeq[k - Cardinality({ j \in 1..Len(highSeq) : before[j] + j < k })]]

LowCounts == (0..MaxLowBefore) \cup {Len(lowSeq)}

ZoneInterleavings ==
  { Interleave(b) :
      b \in { f \in [1..Len(highSeq) -> LowCounts] :
                \A j \in 1..(Len(highSeq) - 1) : f[j] <= f[j + 1] } }

InitZones ==
  /\ catalog \in ZoneInterleavings
  /\ pos = 1 /\ pc = "loop" /\ err = "none"
  /\ emProfiles = [n \in LineNames |-> [centerList |-> NoKey, sigmaList |-> NoKey]]
  /\ heap = <<>>
  /\ model = NoModel
  /\ fitCount = [n \in LineNames |-> 0]
  /\ fitCalls = [n \in LineNames |-> NoCall]
  /\ lowZoneProfiles = <<>> /\ highZoneProfiles = <<>>
  /\ ampListAll = <<>> /\ allModelComponents = <<>>
  /\ GcIdle /\ VdIdle /\ VelIdle

SpecZones == InitZones /\ [][Next]_vars

(***************************************************************************)
(* The emission-line loop over the declared order as a function: given the *)
(* optimiser's move in each line's fit, the lists each line's fit is       *)
(* handed (lines 303-350; lists are values here, no list is changed once   *)
(* it is recorded).                                                        *)
(***************************************************************************)
NoLists == [centerList |-> <<>>, sigmaList |-> <<>>]

RECURSIVE InCatalogOrder(_, _, _, _)
InCatalogOrder(k, move, prof, calls) ==
  IF k > NLines THEN calls
  ELSE
    LET n == emNames[k]
        zone == emInfo(n).zone
        isRef == (zone = "low" /\ n = "H-Alpha") \/ (zone = "high" /\ n = "OIII-5007A")
        sigmaFree == zone = "low" /\ n \in {"NII-6584A", "SII-6717A", "OII-3729A"}
        ref == IF zone = "low" THEN "H-Alpha" ELSE "OIII-5007A"
        cList == IF isRef
                 THEN (IF zone = "low" THEN centerListLowZone ELSE centerListHighZone)
                 ELSE prof[ref].centerList
        sList == IF isRef
                 THEN (IF zone = "low" THEN sigmaListLowZone ELSE sigmaListHighZone)
                 ELSE IF zone = "low" /\ ~sigmaFree
                      THEN prof[SigmaSource(n)].sigmaList
                      ELSE prof[ref].sigmaList
        m == lin_and_multi_gaussian(zone, n, numComps, cList, sList, emInfo(n).ampList,
                                    [shift |-> move[n], stderr |-> Some(1)])
        own == [centerList |-> IF isRef THEN BestCenters(m) ELSE cList,
                sigmaList  |-> IF isRef \/ sigmaFree THEN BestSigmas(m) ELSE sList]
    IN  InCatalogOrder(k + 1, move, [prof EXCEPT ![n] = own],
                       [calls EXCEPT ![n] = [cList |-> cList, sList |-> sList]])

(***************************************************************************)
(* lin_and_multi_gaussian's component loop on its own: any line name in    *)
(* either zone, one _gaussian_component per step.                          *)
(***************************************************************************)
GcInputs ==
  [zone : {"low", "high"}, lineName : LineNames,
   cList : {centerListLowZone, centerListHighZone},
   sList : {sigmaListLowZone, sigmaListHighZone}]

InitGC == RunIdle /\ VdIdle /\ VelIdle /\ gcIn \in GcInputs /\ gcPars = <<>>

\* for i in range(numOfComponents): gList.append(self._gaussian_component(...))
GcAddComponent ==
  /\ Len(gcPars) < numComps
  /\ LET i == Len(gcPars) + 1
     IN  gcPars' = Append(gcPars,
                     gaussian_component(gcIn.zone, gcIn.lineName, gcIn.cList[i],
                                        gcIn.sList[i], emInfo(gcIn.lineName).ampList[i]))
  /\ UNCHANGED <<gcIn, runVars, vdVars, velVars>>

NextGC == GcAddComponent

SpecGC == InitGC /\ [][NextGC]_vars

(***************************************************************************)
(* vel_dispersion on its own.                                              *)
(***************************************************************************)
\* the sigmaT2 values of the catalog, and 0
SigmaT2Values == {0} \cup { emInfo(n).sigmaT2 : n \in LineNames }

VdInputs ==
  [sigmaObs : { 10 * k : k \in 0..MaxSigmaObs },
   sigmaObsError : {None} \cup { Some(e) : e \in 0..MaxSigmaErr },
   sigmaTemp2 : SigmaT2Values,
   filter : {"blue", "red", "green"}]

InitVD == RunIdle /\ GcIdle /\ VelIdle /\ vdIn \in VdInputs /\ vdOut = <<>>

CallVelDispersion ==
  /\ vdOut = <<>>
  /\ \E numpyFloat \in BOOLEAN :
       vdOut' = <<vel_dispersion(vdIn.sigmaObs, vdIn.sigmaObsError, vdIn.sigmaTemp2,
                                 vdIn.filter, numpyFloat)>>
  /\ UNCHANGED <<vdIn, runVars, gcVars, velVars>>

NextVD == CallVelDispersion

SpecVD == InitVD /\ [][NextVD]_vars

(***************************************************************************)
(* EmissionLineProfile._velocity on its own: the constructor (line 118)    *)
(* applies it to the wave array it is given.                               *)
(***************************************************************************)
\* the rest wavelengths of the catalog, and the same numbers negated (the
\* constructor takes any number as restWave)
RestWaves == { restWavelengths[i] : i \in 1..NLines }
WaveOffsets == (-MaxWaveOffset)..MaxWaveOffset
WaveArrays(restWave) ==
  UNION { [1..n -> { restWave + d : d \in WaveOffsets }] : n \in 1..MaxWaveLen }

InitVel ==
  /\ RunIdle /\ GcIdle /\ VdIdle
  /\ \E r \in RestWaves \cup { -x : x \in RestWaves } :
       \E w \in WaveArrays(r) : velIn = [restWave |-> r, wave |-> w]
  /\ velOut = <<>>

\* self.vel = self._velocity(wave)
CallVelocity ==
  /\ velOut = <<>>
  /\ velOut' = <<velocity(velIn.restWave, velIn.wave)>>
  /\ UNCHANGED <<velIn, runVars, gcVars, vdVars>>

NextVel == CallVelocity

SpecVel == InitVel /\ [][NextVel]_vars

(***************************************************************************)
(* Vocabulary of the properties.                                           *)
(***************************************************************************)
ZoneRef(l) == IF emInfo(l).zone = "low" THEN "H-Alpha" ELSE "OIII-5007A"
ZoneRefs == {"H-Alpha", "OIII-5007A"}

\* the doublet partner whose sigma a line takes, if it has one
Sibling(l) ==
  CASE l = "NII-6548A" -> {"NII-6584A"}
    [] l = "SII-6731A" -> {"SII-6717A"}
    [] l = "OII-3726A" -> {"OII-3729A"}
    [] OTHER -> {}

\* the lines a line depends on: its zone's reference and its sibling
DependsOn(l) == (IF l \in ZoneRefs THEN {} ELSE {ZoneRef(l)}) \cup Sibling(l)

\* a line has a recorded result: it was fit and both its keys are written
HasResult(l) ==
  /\ fitCount[l] > 0
  /\ emProfiles[l].centerList # NoKey
  /\ emProfiles[l].sigmaList # NoKey

\* the position of a line in the catalog
PosOf(l) == CHOOSE i \in 1..NLines : catalog[i] = l

\* the lists a line's keys refer to (<<>> while a key is not written)
ListsOf(prof, hp, l) ==
  IF prof[l].centerList = NoKey \/ prof[l].sigmaList = NoKey
  THEN <<>>
  ELSE <<hp[prof[l].centerList], hp[prof[l].sigmaList]>>

(***************************************************************************)
(* C1.  In a run over the catalog in its declared order, every line that   *)
(* has been fit has all the lines it depends on recorded (so the reference *)
(* is fit before the other lines of its zone and each doublet's first line *)
(* before its partner), and no read of a centerList / sigmaList fails.     *)
(***************************************************************************)
C1_DeclaredOrderRespectsDependencies ==
  catalog = emNames =>
    /\ err # "KeyError"
    /\ \A l \in LineNames : fitCount[l] > 0 =>
         \A d \in DependsOn(l) : HasResult(d) /\ PosOf(d) < PosOf(l)

C1_Witness ==
  /\ catalog = emNames
  /\ pc = "done"
  /\ \A l \in LineNames : fitCount[l] = 1

\* the loop is at a line one of whose required lines has no recorded result
MissingRequired == Running /\ \E d \in DependsOn(emName) : ~HasResult(d)

C3_Table(zone, lineName) ==
  CASE zone = "low" /\ lineName = "H-Alpha" -> <<TRUE, TRUE, TRUE>>
    [] zone = "high" /\ lineName = "OIII-5007A" -> <<TRUE, TRUE, TRUE>>
    [] zone = "low" /\ lineName \in {"NII-6584A", "SII-6717A", "OII-3729A"} ->
         <<FALSE, TRUE, TRUE>>
    [] OTHER -> <<FALSE, FALSE, TRUE>>

(***************************************************************************)
(* C3.  Every component lin_and_multi_gaussian builds has the vary flags   *)
(* of the (zone, lineName) table: all free for ('low','H-Alpha') and       *)
(* ('high','OIII-5007A'); center fixed, sigma and amplitude free for       *)
(* 'low' NII-6584A, SII-6717A, OII-3729A; center and sigma fixed,          *)
(* amplitude free for every other name of either zone.  The amplitude is   *)
(* always free and all components of one line have the same flags.         *)
(***************************************************************************)
C3_VaryFlagsFollowTable ==
  \A i \in 1..Len(gcPars) :
    /\ <<gcPars[i].center.vary, gcPars[i].sigma.vary, gcPars[i].amplitude.vary>>
         = C3_Table(gcIn.zone, gcIn.lineName)
    /\ gcPars[i].amplitude.vary
    /\ \A k \in 1..Len(gcPars) :
         /\ gcPars[k].center.vary = gcPars[i].center.vary
         /\ gcPars[k].sigma.vary = gcPars[i].sigma.vary
         /\ gcPars[k].amplitude.vary = gcPars[i].amplitude.vary

\* all numComps components of a 'high' line other than OIII-5007A are built
C3_Witness ==
  /\ gcIn # <<>>
  /\ Len(gcPars) = numComps
  /\ gcIn.zone = "high"
  /\ gcIn.lineName = "NII-6584A"
  /\ ~gcPars[numComps].sigma.vary

\* the lines whose table entry frees the amplitude only
AmplitudeOnly(l) ==
  /\ l \notin ZoneRefs
  /\ l \notin {"NII-6584A", "SII-6717A", "OII-3729A"}

(***************************************************************************)
(* C4.  Every fitted line other than its zone's reference was fit with a   *)
(* center list equal to the reference's best-fit centers, and a line with  *)
(* amplitude freedom only comes out of its fit with exactly the centers    *)
(* and sigmas it was given.                                                *)
(***************************************************************************)
C4_CentersInheritedFixedKept ==
  \A l \in LineNames :
    (fitCount[l] > 0 /\ l \notin ZoneRefs) =>
      /\ fitCount[ZoneRef(l)] > 0
      /\ fitCalls[l].cList = fitCalls[ZoneRef(l)].center
      /\ AmplitudeOnly(l) =>
           /\ fitCalls[l].center = fitCalls[ZoneRef(l)].center
           /\ fitCalls[l].sigma = fitCalls[l].sList

\* an amplitude-only line was fit after its reference's fit moved the centers,
\* and its own fit moved its amplitudes
C4_Witness ==
  /\ pos \in 2..NLines + 1
  /\ catalog[pos - 1] = "H-Beta"
  /\ fitCount["H-Beta"] = 1
  /\ fitCalls["H-Alpha"].center # centerListLowZone
  /\ model.best[1].amplitude # emInfo("H-Beta").ampList[1]

\* the line whose fitted sigmas a line is to be fit with
C5_SigmaFrom(l) ==
  CASE l = "NII-6548A" -> "NII-6584A"
    [] l = "SII-6731A" -> "SII-6717A"
    [] l = "OII-3726A" -> "OII-3729A"
    [] OTHER -> ZoneRef(l)

(***************************************************************************)
(* C5.  A fitted line other than a zone reference was fit with the sigma   *)
(* list its name selects: NII-6548A, SII-6731A, OII-3726A with the fitted  *)
(* sigmas of NII-6584A, SII-6717A, OII-3729A; every other one with the     *)
(* fitted sigmas of its zone's reference.  The sigmaList recorded for      *)
(* NII-6584A, SII-6717A, OII-3729A holds their own fitted sigmas, in a     *)
(* list of their own.                                                      *)
(***************************************************************************)
C5_SigmaListChosenByName ==
  \A l \in LineNames :
    (fitCount[l] > 0 /\ l \notin ZoneRefs) =>
      /\ fitCount[C5_SigmaFrom(l)] > 0
      /\ fitCalls[l].sList = fitCalls[C5_SigmaFrom(l)].sigma
      /\ l \in {"NII-6584A", "SII-6717A", "OII-3729A"} =>
           /\ heap[emProfiles[l].sigmaList] = fitCalls[l].sigma
           /\ emProfiles[l].sigmaList # emProfiles["H-Alpha"].sigmaList

\* NII-6548A was fit with NII-6584A's sigmas, which differ from H-Alpha's,
\* and the loop has handled the last line of zone 'high'
C5_Witness ==
  /\ fitCount["NII-6548A"] = 1
  /\ fitCalls["NII-6548A"].sList = fitCalls["NII-6584A"].sigma
  /\ fitCalls["NII-6584A"].sigma # fitCalls["H-Alpha"].sigma
  /\ fitCount["NeIII-3967A"] = 1

(***************************************************************************)
(* C6.  A step changes the center and sigma lists recorded for a zone's    *)
(* reference line only if it is the step that fits that reference; every   *)
(* other step, the fits of the lines sharing those list objects included,  *)
(* leaves them as they are.                                                *)
(***************************************************************************)
C6_ReferenceListsWrittenOnce ==
  [][\A r \in ZoneRefs :
       ListsOf(emProfiles', heap', r) # ListsOf(emProfiles, heap, r) =>
         /\ Running
         /\ emName = r
         /\ fitCount[r] = 0]_vars

\* the run is over, lines share the references' list objects, and the lists
\* are still the references' best values
C6_Witness ==
  /\ pc = "done"
  /\ emProfiles["NII-6584A"].centerList = emProfiles["H-Alpha"].centerList
  /\ emProfiles["OIII-4959A"].sigmaList = emProfiles["OIII-5007A"].sigmaList
  /\ fitCalls["NII-6584A"].sigma # fitCalls["H-Alpha"].sigma
  /\ ListsOf(emProfiles, heap, "H-Alpha")
       = <<fitCalls["H-Alpha"].center, fitCalls["H-Alpha"].sigma>>

(***************************************************************************)
(* C7.  As claimed: a fit whose standard errors are unavailable does not   *)
(* end the run; the loop goes on to the remaining lines.                   *)
(***************************************************************************)
C7_Claim_RunGoesOnWithoutStdErr ==
  (model # NoModel /\ model.stderr = None) => err = "none"

\* vel_dispersion has been applied to its input
VdCalled == vdIn # <<>> /\ vdOut # <<>>

VdReturned == VdCalled /\ vdOut[1].raised = "none"

\* sigmaObs^2 - sigmaInstr^2 - sigmaTemp2 in hundredths, with 4.9^2 = 24.01
\* and 5.6^2 = 31.36
C9_Radicand ==
  vdIn.sigmaObs * vdIn.sigmaObs
    - (IF vdIn.filter = "blue" THEN 2401 ELSE 3136) - vdIn.sigmaTemp2

\* 0.5 * (2 * sigmaObsError * sigmaObs) / sigmaObs^2 as a rational
C9_ErrorCoef ==
  <<2 * vdIn.sigmaObsError[1] * vdIn.sigmaObs, 2 * vdIn.sigmaObs * vdIn.sigmaObs>>

C9_ValueAndError ==
  /\ vdOut[1].intrinsic = [sqrtOf |-> C9_Radicand]
  /\ vdOut[1].intrinsicError # NaN
  /\ vdOut[1].intrinsicError.times = vdOut[1].intrinsic
  /\ REq(vdOut[1].intrinsicError.coef, C9_ErrorCoef)

(***************************************************************************)
(* C9.  As claimed: whenever vel_dispersion returns for filter 'blue'      *)
(* (4.9) or 'red' (5.6), the square of the intrinsic dispersion is         *)
(* sigmaObs^2 - sigmaInstr^2 - sigmaTemp2 and the error is                 *)
(* 0.5 * (2 * sigmaObsError * sigmaObs) / sigmaObs^2 * intrinsic.          *)
(***************************************************************************)
C9_Original_SquareAndError == VdReturned => C9_ValueAndError

(***************************************************************************)
(* C9, amended.  Whenever vel_dispersion returns for filter 'blue' (4.9)   *)
(* or 'red' (5.6) and sigmaObs^2 - sigmaInstr^2 - sigmaTemp2 is not        *)
(* negative, the square of the intrinsic dispersion is that number and the *)
(* error is 0.5 * (2 * sigmaObsError * sigmaObs) / sigmaObs^2 * intrinsic; *)
(* when that number is negative both results are NaN.  Filter 'blue',      *)
(* sigmaObs = 10, sigmaTemp2 = 0 gives intrinsic^2 = 75.99.                *)
(***************************************************************************)
C9_SquareAndErrorWhenDefined ==
  VdReturned =>
    /\ IF C9_Radicand >= 0
       THEN C9_ValueAndError
       ELSE vdOut[1].intrinsic = NaN /\ vdOut[1].intrinsicError = NaN
    /\ (vdIn.filter = "blue" /\ vdIn.sigmaObs = 100 /\ vdIn.sigmaTemp2 = 0) =>
         vdOut[1].intrinsic = [sqrtOf |-> 7599]

\* the example of the claim, with sigmaObsError = 0.1
C9_Witness ==
  /\ VdReturned
  /\ vdIn.filter = "blue" /\ vdIn.sigmaObs = 100 /\ vdIn.sigmaTemp2 = 0
  /\ vdIn.sigmaObsError = Some(1)
  /\ vdOut[1].intrinsic = [sqrtOf |-> 7599]
  /\ REq(vdOut[1].intrinsicError.coef, <<1, 100>>)

\* how often x occurs in seq
Occurrences(seq, x) == Cardinality({ i \in 1..Len(seq) : seq[i] = x })

(***************************************************************************)
(* C10.  While no error is raised the loop can always go on until it has   *)
(* finished, the lines fit so far are exactly the ones the loop has        *)
(* passed, each fit once, and when the script is done every line of the    *)
(* catalog has been fit and reported exactly once.                         *)
(***************************************************************************)
C10_EveryLineFitExactlyOnce ==
  /\ \A l \in LineNames : fitCount[l] <= 1
  /\ err = "none" =>
       /\ pos \in 1..NLines + 1
       /\ \A i \in 1..NLines : fitCount[catalog[i]] = (IF i < pos THEN 1 ELSE 0)
       /\ pc = "done" \/ ENABLED Next
  /\ pc = "done" =>
       /\ err = "none"
       /\ \A l \in LineNames :
            /\ fitCount[l] = 1
            /\ Occurrences(ampListAll, l) = 1
            /\ Occurrences(lowZoneProfiles \o highZoneProfiles, l) = 1

\* a run over a catalog order other than the declared one has finished
C10_Witness ==
  /\ pc = "done"
  /\ catalog # emNames
  /\ Len(ampListAll) = NLines

\* a list has one entry per component
HasNumComps(list) == Len(list) = numComps

(***************************************************************************)
(* C11.  Every call of lin_and_multi_gaussian made so far was handed a     *)
(* center list, a sigma list and an amplitude list of numComps (3) entries *)
(* each, and every list recorded from a fit's best values, which later     *)
(* calls are handed, has numComps entries too.                             *)
(***************************************************************************)
C11_FitListsHaveNumCompsEntries ==
  /\ \A l \in LineNames :
       fitCount[l] > 0 =>
         /\ HasNumComps(fitCalls[l].cList)
         /\ HasNumComps(fitCalls[l].sList)
         /\ HasNumComps(fitCalls[l].aList)
  /\ \A x \in 1..Len(heap) : HasNumComps(heap[x])

\* a finished run in which NII-6548A was fit from the reference's recorded
\* centers and its sibling's recorded sigmas, three of each
C11_Witness ==
  /\ pc = "done"
  /\ fitCount["NII-6548A"] = 1
  /\ fitCalls["NII-6548A"].cList = heap[emProfiles["H-Alpha"].centerList]
  /\ fitCalls["NII-6548A"].sList = heap[emProfiles["NII-6584A"].sigmaList]
  /\ Len(fitCalls["NII-6548A"].cList) = 3
  /\ Len(fitCalls["NII-6548A"].sList) = 3
  /\ Len(fitCalls["NII-6548A"].aList) = 3

\* a rational written with a positive denominator
RPos(a) == IF a[2] < 0 THEN <<-a[1], -a[2]>> ELSE a
\* a < b for rationals, compared over their least common denominator
RLess(a, b) ==
  LET x == RPos(a)
      y == RPos(b)
      g == Gcd(x[2], y[2])
  IN  x[1] * (y[2] \div g) < y[1] * (x[2] \div g)

\* _velocity has been applied
VelCalled == velIn # <<>> /\ velOut # <<>>

(***************************************************************************)
(* C12.  For restWave > 0, _velocity gives every sample the velocity       *)
(* (wave - restWave) / restWave * 300000: a sample at wave = restWave gets *)
(* the velocity 0, and of two samples the one at the smaller wavelength    *)
(* gets the strictly smaller velocity.                                     *)
(***************************************************************************)
C12_VelocityValueZeroAndIncreasing ==
  (VelCalled /\ velIn.restWave > 0) =>
    LET r == velIn.restWave
        w == velIn.wave
        v == velOut[1]
    IN  /\ Len(v) = Len(w)
        /\ \A i \in 1..Len(w) :
             /\ v[i] = RNorm((w[i] - r) * 300000, r)
             /\ w[i] = r => v[i] = <<0, 1>>
        /\ \A i, j \in 1..Len(w) : w[i] < w[j] => RLess(v[i], v[j])

\* H-Alpha's rest wavelength, a sample below it and a sample at it: the
\* velocities are -300000 * 0.01 / 6562.82 km/s and 0
C12_Witness ==
  /\ VelCalled
  /\ velIn.restWave = 656282
  /\ velIn.wave = <<656281, 656282>>
  /\ velOut[1] = <<(<<-150000, 328141>>), (<<0, 1>>)>>

\* the two zones, and the lines of a zone
OtherZone(z) == IF z = "low" THEN "high" ELSE "low"
ZoneLines(z) == { l \in LineNames : emInfo(l).zone = z }
\* the list objects that the keys of a zone's lines refer to
ZoneListRefs(prof, z) ==
  ({ prof[l].centerList : l \in ZoneLines(z) }
     \cup { prof[l].sigmaList : l \in ZoneLines(z) }) \ {NoKey}
\* the lists a zone can hand to a fit: its seed lists and its recorded lists
ZoneLists(prof, hp, z) ==
  (IF z = "low" THEN {centerListLowZone, sigmaListLowZone}
                ELSE {centerListHighZone, sigmaListHighZone})
    \cup { hp[x] : x \in ZoneListRefs(prof, z) }

\* an iteration of the loop leaves the other zone's lines, keys and recorded
\* lists as they are, the keys it writes refer to no list object of the
\* other zone, and its fit is handed lists of its own zone only
StepKeepsToItsZone ==
  Running =>
    LET n == emName
        z == emInfo(n).zone
        o == OtherZone(z)
    IN  /\ \A h \in ZoneLines(o) :
             /\ emProfiles'[h] = emProfiles[h]
             /\ fitCalls'[h] = fitCalls[h]
             /\ fitCount'[h] = fitCount[h]
        /\ \A x \in ZoneListRefs(emProfiles, o) : heap'[x] = heap[x]
        /\ {emProfiles'[n].centerList, emProfiles'[n].sigmaList}
             \cap ZoneListRefs(emProfiles, o) = {}
        /\ fitCount'[n] > fitCount[n] =>
             /\ fitCalls'[n].cList \in ZoneLists(emProfiles, heap, z)
             /\ fitCalls'[n].sList \in ZoneLists(emProfiles, heap, z)
             /\ fitCalls'[n].cList \notin ZoneLists(emProfiles, heap, o)
             /\ fitCalls'[n].sList \notin ZoneLists(emProfiles, heap, o)

\* the optimiser's move in the fit of a line, read off the recorded call
\* (0 for a line not fit yet, and for a fit that has amplitudes free only)
MoveOf(l) ==
  IF fitCount[l] = 0 THEN 0
  ELSE IF fitCalls[l].center # fitCalls[l].cList
       THEN fitCalls[l].center[1] - fitCalls[l].cList[1]
       ELSE fitCalls[l].sigma[1] - fitCalls[l].sList[1]

\* every line fit so far was handed the lists that the loop over the
\* declared order hands it when the optimiser makes the same moves
SameListsAsCatalogOrder ==
  LET declared == InCatalogOrder(1, [l \in LineNames |-> MoveOf(l)],
                                 [l \in LineNames |-> NoLists],
                                 [l \in LineNames |-> [cList |-> <<>>, sList |-> <<>>]])
  IN  \A l \in LineNames :
        fitCount[l] > 0 =>
          /\ fitCalls[l].cList = declared[l].cList
          /\ fitCalls[l].sList = declared[l].sList

(***************************************************************************)
(* C13.  In every interleaving of the two zones' line sequences that keeps *)
(* each zone's own order, an iteration that fits a line of one zone        *)
(* neither writes nor is handed any center or sigma list recorded by a     *)
(* line of the other zone, and every line is handed the same center and    *)
(* sigma lists as in the run over the declared order (the optimiser making *)
(* the same move in each line's fit).                                      *)
(***************************************************************************)
C13_ZonesIndependentUnderInterleaving ==
  /\ [][StepKeepsToItsZone]_vars
  /\ []SameListsAsCatalogOrder

\* a finished run in which the 'high' lines came before every 'low' line,
\* the optimiser moved both references, and a line of each zone was handed
\* its own reference's moved lists
C13_Witness ==
  /\ pc = "done"
  /\ catalog # emNames
  /\ PosOf("NeIII-3967A") < PosOf("H-Alpha")
  /\ fitCalls["H-Alpha"].center # centerListLowZone
  /\ fitCalls["OIII-5007A"].center # centerListHighZone
  /\ fitCalls["H-Beta"].cList = fitCalls["H-Alpha"].center
  /\ fitCalls["H-Beta"].sList = fitCalls["H-Alpha"].sigma
  /\ fitCalls["NeIII-3967A"].cList = fitCalls["OIII-5007A"].center
  /\ fitCalls["NeIII-3967A"].sList = fitCalls["OIII-5007A"].sigma

====
